---------------------------- MODULE Spec2Model ----------------------------
(***************************************************************************)
(* The MC68040 floating-point instruction subsystem of Musashi             *)
(* (src/m68kfpu.c): effective-address resolver, condition-code engine and  *)
(* opcode dispatcher.                                                      *)
(*                                                                         *)
(* Number representation.  TLC integers are 32-bit signed, so              *)
(*   - a uint32_t is a pair <<hi, lo>> of 16-bit halves,                    *)
(*   - a uint64_t / fp_reg.i is a 4-tuple of 16-bit words, most            *)
(*     significant first,                                                  *)
(* and all arithmetic on them is done word by word, modulo 2^32 / 2^64.    *)
(***************************************************************************)
EXTENDS Integers, Sequences, FiniteSets, TLC

VARIABLES
    REG_D,      \* data registers D0..D7 (index 0..7), uint32
    REG_A,      \* address registers A0..A7, uint32
    REG_FP,     \* floating-point registers FP0..FP7, 64-bit patterns
    REG_FPSR,   \* uint32
    REG_FPCR,   \* uint32
    REG_FPIAR,  \* uint32
    REG_PC,     \* program counter, uint32
    REG_IR,     \* first opcode word of the instruction being executed
    mem,        \* byte memory: written byte addresses -> 0..255
    cycles,     \* cycles charged so far (USE_CYCLES)
    halted,     \* TRUE once fatalerror() has terminated the run
    bus,        \* data-bus transactions of the last operation, in order
    last,       \* the last operation performed and what it returned
    icount,     \* number of operations performed
    given       \* the operands handed to the resolver / the engine when
                \* they are exercised on their own (fixed at start)

vars == <<REG_D, REG_A, REG_FP, REG_FPSR, REG_FPCR, REG_FPIAR, REG_PC, REG_IR,
          mem, cycles, halted, bus, last, icount, given>>

(***************************************************************************)
(* Bounds of the model.                                                    *)
(***************************************************************************)
MaxOps == 2       \* operations performed in one run
MaxSigBits == 10  \* arithmetic is modelled for operands whose significand,
                  \* stripped of trailing zeros, has at most this many bits

(***************************************************************************)
(* Word arithmetic.                                                        *)
(***************************************************************************)
W16 == 256 * 256

RECURSIVE BitAnd(_, _)
BitAnd(a, b) ==
    IF a = 0 \/ b = 0 THEN 0
    ELSE (a % 2) * (b % 2) + 2 * BitAnd(a \div 2, b \div 2)

BitNot16(a) == (W16 - 1) - a

BitOr(a, b) == a + b - BitAnd(a, b)

And32(x, y) == <<BitAnd(x[1], y[1]), BitAnd(x[2], y[2])>>
Or32(x, y)  == <<BitOr(x[1], y[1]), BitOr(x[2], y[2])>>
Not32(x)    == <<BitNot16(x[1]), BitNot16(x[2])>>

And64(x, y) == [i \in 1..4 |-> BitAnd(x[i], y[i])]

\* x + n modulo 2^32, for a uint32 x and a small signed integer n
Add32(x, n) ==
    LET t == x[2] + n
    IN  <<(x[1] + (t \div W16)) % W16, t % W16>>

\* x + y modulo 2^32 for two uint32
AddU32(x, y) ==
    LET t == x[2] + y[2]
    IN  <<(x[1] + y[1] + (t \div W16)) % W16, t % W16>>

ZERO32 == <<0, 0>>
ZERO64 == <<0, 0, 0, 0>>

(***************************************************************************)
(* Condition-code engine.                                                  *)
(***************************************************************************)
FPCC_N   == <<2048, 0>>     \* 0x08000000
FPCC_Z   == <<1024, 0>>     \* 0x04000000
FPCC_I   == <<512, 0>>      \* 0x02000000
FPCC_NAN == <<256, 0>>      \* 0x01000000

DOUBLE_INFINITY == <<32752, 0, 0, 0>>          \* 0x7ff0000000000000
DOUBLE_EXPONENT == <<32752, 0, 0, 0>>          \* 0x7ff0000000000000
DOUBLE_MANTISSA == <<15, 65535, 65535, 65535>> \* 0x000fffffffffffff
SIGN64          == <<32768, 0, 0, 0>>          \* 0x8000000000000000
NOSIGN64        == <<32767, 65535, 65535, 65535>> \* 0x7fffffffffffffff

SET_CONDITION_CODES_Partial(fpsr, reg) ==
    \* a variant that ORs the new flags in without clearing the old ones
    LET f0 == fpsr
        f1 == IF And64(reg, SIGN64) # ZERO64 THEN Or32(f0, FPCC_N) ELSE f0
        f2 == IF And64(reg, NOSIGN64) = ZERO64 THEN Or32(f1, FPCC_Z) ELSE f1
        f3 == IF And64(reg, NOSIGN64) = DOUBLE_INFINITY THEN Or32(f2, FPCC_I) ELSE f2
    IN  IF And64(reg, DOUBLE_EXPONENT) = DOUBLE_EXPONENT
           /\ And64(reg, DOUBLE_MANTISSA) # ZERO64
        THEN Or32(f3, FPCC_NAN) ELSE f3

\* the value of REG_FPSR after SET_CONDITION_CODES(reg), from its value before
SET_CONDITION_CODES(fpsr, reg) ==
    LET f0 == And32(fpsr, Not32(Or32(Or32(FPCC_N, FPCC_Z), Or32(FPCC_I, FPCC_NAN))))
        f1 == IF And64(reg, SIGN64) # ZERO64 THEN Or32(f0, FPCC_N) ELSE f0
        f2 == IF And64(reg, NOSIGN64) = ZERO64 THEN Or32(f1, FPCC_Z) ELSE f1
        f3 == IF And64(reg, NOSIGN64) = DOUBLE_INFINITY THEN Or32(f2, FPCC_I) ELSE f2
    IN  IF And64(reg, DOUBLE_EXPONENT) = DOUBLE_EXPONENT
           /\ And64(reg, DOUBLE_MANTISSA) # ZERO64
        THEN Or32(f3, FPCC_NAN) ELSE f3

Bool(b) == IF b THEN 1 ELSE 0

TEST_CONDITION_Ordered(fpsr, condition) ==
    \* a variant whose "not" predicates forget the NaN flag
    LET n   == And32(fpsr, FPCC_N) # ZERO32
        z   == And32(fpsr, FPCC_Z) # ZERO32
    IN  CASE condition = 0  -> [fatal |-> FALSE, r |-> 0]
          [] condition = 1  -> [fatal |-> FALSE, r |-> Bool(z)]
          [] condition = 14 -> [fatal |-> FALSE, r |-> Bool(~z)]
          [] condition = 15 -> [fatal |-> FALSE, r |-> 1]
          [] condition = 18 -> [fatal |-> FALSE, r |-> Bool(~(z \/ n))]
          [] condition = 19 -> [fatal |-> FALSE, r |-> Bool(z \/ ~n)]
          [] condition = 20 -> [fatal |-> FALSE, r |-> Bool(n /\ ~z)]
          [] condition = 21 -> [fatal |-> FALSE, r |-> Bool(z \/ n)]
          [] condition = 26 -> [fatal |-> FALSE, r |-> Bool(~(n \/ z))]
          [] condition = 27 -> [fatal |-> FALSE, r |-> Bool(z \/ ~n)]
          [] condition = 28 -> [fatal |-> FALSE, r |-> Bool(n /\ ~z)]
          [] condition = 29 -> [fatal |-> FALSE, r |-> Bool(z \/ n)]
          [] OTHER          -> [fatal |-> TRUE, r |-> 0]

\* the int TEST_CONDITION returns, or fatal when it ends in fatalerror()
TEST_CONDITION(fpsr, condition) ==
    LET n   == And32(fpsr, FPCC_N) # ZERO32
        z   == And32(fpsr, FPCC_Z) # ZERO32
        nan == And32(fpsr, FPCC_NAN) # ZERO32
    IN  CASE condition = 0  -> [fatal |-> FALSE, r |-> 0]
          [] condition = 1  -> [fatal |-> FALSE, r |-> Bool(z)]
          [] condition = 14 -> [fatal |-> FALSE, r |-> Bool(~z)]
          [] condition = 15 -> [fatal |-> FALSE, r |-> 1]
          [] condition = 18 -> [fatal |-> FALSE, r |-> Bool(~(nan \/ z \/ n))]
          [] condition = 19 -> [fatal |-> FALSE, r |-> Bool(z \/ ~(nan \/ n))]
          [] condition = 20 -> [fatal |-> FALSE, r |-> Bool(n /\ ~(nan \/ z))]
          [] condition = 21 -> [fatal |-> FALSE, r |-> Bool(z \/ (n /\ ~nan))]
          [] condition = 26 -> [fatal |-> FALSE, r |-> Bool(nan \/ ~(n \/ z))]
          [] condition = 27 -> [fatal |-> FALSE, r |-> Bool(nan \/ z \/ ~n)]
          [] condition = 28 -> [fatal |-> FALSE, r |-> Bool(nan \/ (n /\ ~z))]
          [] condition = 29 -> [fatal |-> FALSE, r |-> Bool(nan \/ z \/ n)]
          [] OTHER          -> [fatal |-> TRUE, r |-> 0]

(***************************************************************************)
(* The processor state as one record, so that the C functions, which act   *)
(* on the global register file, become operators from state to state.      *)
(* `is' is the instruction stream ahead of REG_PC (the words the           *)
(* instruction has not fetched yet); `ret' is the value the last call      *)
(* returned.  After fatalerror() (halt) nothing acts any more.             *)
(* For the record of the operation: src is the source operand of an ALU    *)
(* instruction, res the value handed to SET_CONDITION_CODES (cc says       *)
(* whether it was called), taken whether a branch was taken, t0 whether    *)
(* m68ki_trace_t0() was called.                                            *)
(***************************************************************************)
Cur(stream) ==
    [D |-> REG_D, A |-> REG_A, FP |-> REG_FP, FPSR |-> REG_FPSR,
     FPCR |-> REG_FPCR, FPIAR |-> REG_FPIAR, PC |-> REG_PC, IR |-> REG_IR,
     mem |-> mem, cyc |-> cycles, halt |-> halted, bus |-> <<>>,
     is |-> stream, ret |-> 0, t0 |-> FALSE,
     src |-> ZERO64, res |-> ZERO64, cc |-> FALSE, taken |-> FALSE]

fatalerror(m) == [m EXCEPT !.halt = TRUE]

USE_CYCLES(m, n) == [m EXCEPT !.cyc = @ + n]

\* int16 -> uint32 (MAKE_INT_16 stored in a uint)
MAKE_INT_16(w) == <<IF w >= 32768 THEN 65535 ELSE 0, w>>
\* int8 -> uint32
MAKE_INT_8(b) == IF b >= 128 THEN <<65535, 65280 + b>> ELSE <<0, b>>

(***************************************************************************)
(* The memory bus and the instruction stream (m68kcpu.h): big-endian byte  *)
(* memory; bytes never written read as 0.                                  *)
(***************************************************************************)
MemByte(mm, a) == IF a \in DOMAIN mm THEN mm[a] ELSE 0

Log(m, rw, a, n, d) == Append(m.bus, [rw |-> rw, a |-> a, n |-> n, d |-> d])

m68ki_read_8(m, a) ==
    LET v == MemByte(m.mem, a)
    IN  [m EXCEPT !.ret = v, !.bus = Log(m, "r", a, 1, v)]

m68ki_read_16(m, a) ==
    LET v == MemByte(m.mem, a) * 256 + MemByte(m.mem, Add32(a, 1))
    IN  [m EXCEPT !.ret = v, !.bus = Log(m, "r", a, 2, v)]

m68ki_read_32(m, a) ==
    LET v == <<MemByte(m.mem, a) * 256 + MemByte(m.mem, Add32(a, 1)),
               MemByte(m.mem, Add32(a, 2)) * 256 + MemByte(m.mem, Add32(a, 3))>>
    IN  [m EXCEPT !.ret = v, !.bus = Log(m, "r", a, 4, v)]

m68ki_write_8(m, a, d) ==
    [m EXCEPT !.mem = (a :> d) @@ @, !.bus = Log(m, "w", a, 1, d)]

m68ki_write_16(m, a, d) ==
    [m EXCEPT !.mem = (a :> (d \div 256)) @@ (Add32(a, 1) :> (d % 256)) @@ @,
              !.bus = Log(m, "w", a, 2, d)]

m68ki_write_32(m, a, d) ==
    [m EXCEPT !.mem = (a :> (d[1] \div 256)) @@ (Add32(a, 1) :> (d[1] % 256))
                      @@ (Add32(a, 2) :> (d[2] \div 256))
                      @@ (Add32(a, 3) :> (d[2] % 256)) @@ @,
              !.bus = Log(m, "w", a, 4, d)]

\* m68ki_read_imm_16: the next word of the instruction stream; REG_PC += 2
OPER_I_16(m) ==
    [m EXCEPT !.ret = IF m.is = <<>> THEN 0 ELSE Head(m.is),
              !.is = IF m.is = <<>> THEN <<>> ELSE Tail(m.is),
              !.PC = Add32(m.PC, 2)]

\* the low byte of the next instruction word
OPER_I_8(m) == LET m1 == OPER_I_16(m) IN [m1 EXCEPT !.ret = m1.ret % 256]

\* the next two instruction words, high word first
OPER_I_32(m) ==
    LET m1 == OPER_I_16(m)
        m2 == OPER_I_16(m1)
    IN  [m2 EXCEPT !.ret = <<m1.ret, m2.ret>>]

AYreg(m) == m.IR % 8     \* AY is REG_A[REG_IR & 7]

\* (An)+ : the address is the register before it is advanced by n
EA_AY_PI(m, n) ==
    [m EXCEPT !.ret = m.A[AYreg(m)], !.A[AYreg(m)] = Add32(@, n)]

\* -(An) : the register is lowered by n first, and is the address
EA_AY_PD(m, n) ==
    [m EXCEPT !.ret = Add32(m.A[AYreg(m)], -n), !.A[AYreg(m)] = Add32(@, -n)]

\* (d16,An)
EA_AY_DI(m) ==
    LET m1 == OPER_I_16(m)
    IN  [m1 EXCEPT !.ret = AddU32(m.A[AYreg(m)], MAKE_INT_16(m1.ret))]

RECURSIVE Shl32(_, _)
Shl32(x, k) == IF k = 0 THEN x ELSE Shl32(AddU32(x, x), k - 1)

\* (d8,An,Xn) with a brief extension word:
\* bit 15 D/A, bits 14-12 Xn, bit 11 W/L, bits 10-9 scale, bits 7-0 d8
EA_AY_IX(m) ==
    LET m1 == OPER_I_16(m)
        ext == m1.ret
        xr == (ext \div 4096) % 8
        X  == IF ext >= 32768 THEN m.A[xr] ELSE m.D[xr]
        Xn == IF (ext \div 2048) % 2 = 1 THEN X ELSE MAKE_INT_16(X[2])
        sc == (ext \div 512) % 4
    IN  [m1 EXCEPT !.ret = AddU32(AddU32(m.A[AYreg(m)], Shl32(Xn, sc)),
                                  MAKE_INT_8(ext % 256))]

\* (d16,PC): relative to the address of the displacement word
EA_PCDI(m) ==
    LET m1 == OPER_I_16(m)
    IN  [m1 EXCEPT !.ret = AddU32(m.PC, MAKE_INT_16(m1.ret))]

\* (xxx).L as the resolver reads it: two instruction words, (d1 << 16) | d2
AbsLong(m) == OPER_I_32(m)

(***************************************************************************)
(* Effective-address resolver.  ea_ is the 6-bit specifier; each operator  *)
(* gives the state after the call, with the value read in .ret, or the     *)
(* halted state where the C function ends in fatalerror().                 *)
(***************************************************************************)
EaMode(ea) == (ea \div 8) % 8
EaReg(ea)  == ea % 8

\* (xxx).W as the resolver reads it: (uint32_t)OPER_I_16(), zero-extended
AbsShort(m) == LET m1 == OPER_I_16(m) IN [m1 EXCEPT !.ret = <<0, m1.ret>>]

READ_EA_8(m, ea) ==
    LET mode == EaMode(ea)
        reg  == EaReg(ea)
        at(m1) == m68ki_read_8(m1, m1.ret)
    IN  CASE mode = 0 -> [m EXCEPT !.ret = m.D[reg][2] % 256]
          [] mode = 2 -> m68ki_read_8(m, m.A[reg])
          [] mode = 5 -> at(EA_AY_DI(m))
          [] mode = 6 -> at(EA_AY_IX(m))
          [] mode = 7 /\ reg = 0 -> at(AbsShort(m))
          [] mode = 7 /\ reg = 1 -> at(AbsLong(m))
          [] mode = 7 /\ reg = 4 -> OPER_I_8(m)
          [] OTHER -> fatalerror(m)

READ_EA_16(m, ea) ==
    LET mode == EaMode(ea)
        reg  == EaReg(ea)
        at(m1) == m68ki_read_16(m1, m1.ret)
    IN  CASE mode = 0 -> [m EXCEPT !.ret = m.D[reg][2]]
          [] mode = 2 -> m68ki_read_16(m, m.A[reg])
          [] mode = 5 -> at(EA_AY_DI(m))
          [] mode = 6 -> at(EA_AY_IX(m))
          [] mode = 7 /\ reg = 0 -> at(AbsShort(m))
          [] mode = 7 /\ reg = 1 -> at(AbsLong(m))
          [] mode = 7 /\ reg = 4 -> OPER_I_16(m)
          [] OTHER -> fatalerror(m)

READ_EA_32_WithAn(m, ea) ==
    \* a variant that also reads address-register direct
    LET mode == EaMode(ea)
        reg  == EaReg(ea)
        at(m1) == m68ki_read_32(m1, m1.ret)
    IN  CASE mode = 0 -> [m EXCEPT !.ret = m.D[reg]]
          [] mode = 1 -> [m EXCEPT !.ret = m.A[reg]]
          [] mode = 2 -> m68ki_read_32(m, m.A[reg])
          [] mode = 3 -> at(EA_AY_PI(m, 4))
          [] mode = 5 -> at(EA_AY_DI(m))
          [] mode = 6 -> at(EA_AY_IX(m))
          [] mode = 7 /\ reg = 0 -> at(AbsShort(m))
          [] mode = 7 /\ reg = 1 -> at(AbsLong(m))
          [] mode = 7 /\ reg = 2 -> at(EA_PCDI(m))
          [] mode = 7 /\ reg = 4 -> OPER_I_32(m)
          [] OTHER -> fatalerror(m)

READ_EA_32(m, ea) ==
    LET mode == EaMode(ea)
        reg  == EaReg(ea)
        at(m1) == m68ki_read_32(m1, m1.ret)
    IN  CASE mode = 0 -> [m EXCEPT !.ret = m.D[reg]]
          [] mode = 2 -> m68ki_read_32(m, m.A[reg])
          [] mode = 3 -> at(EA_AY_PI(m, 4))
          [] mode = 5 -> at(EA_AY_DI(m))
          [] mode = 6 -> at(EA_AY_IX(m))
          [] mode = 7 /\ reg = 0 -> at(AbsShort(m))
          [] mode = 7 /\ reg = 1 -> at(AbsLong(m))
          [] mode = 7 /\ reg = 2 -> at(EA_PCDI(m))
          [] mode = 7 /\ reg = 4 -> OPER_I_32(m)
          [] OTHER -> fatalerror(m)

\* h1 = m68ki_read_32(ea+0); h2 = m68ki_read_32(ea+4); (h1 << 32) | h2
Read64At(m, a) ==
    LET m1 == m68ki_read_32(m, a)
        m2 == m68ki_read_32(m1, Add32(a, 4))
    IN  [m2 EXCEPT !.ret = <<m1.ret[1], m1.ret[2], m2.ret[1], m2.ret[2]>>]

READ_EA_64(m, ea) ==
    LET mode == EaMode(ea)
        reg  == EaReg(ea)
    IN  CASE mode = 2 -> Read64At(m, m.A[reg])
          [] mode = 3 -> Read64At([m EXCEPT !.A[reg] = Add32(@, 8)], m.A[reg])
          [] mode = 5 -> LET m1 == EA_AY_DI(m) IN Read64At(m1, m1.ret)
          [] mode = 7 /\ reg = 4 ->
                LET m1 == OPER_I_32(m)
                    m2 == OPER_I_32(m1)
                IN  [m2 EXCEPT !.ret = <<m1.ret[1], m1.ret[2], m2.ret[1], m2.ret[2]>>]
          [] mode = 7 /\ reg = 2 -> LET m1 == EA_PCDI(m) IN Read64At(m1, m1.ret)
          [] OTHER -> fatalerror(m)

WRITE_EA_8(m, ea, data) ==
    LET mode == EaMode(ea)
        reg  == EaReg(ea)
        at(m1) == m68ki_write_8(m1, m1.ret, data)
    IN  CASE mode = 0 -> [m EXCEPT !.D[reg] = <<0, data>>]
          [] mode = 2 -> m68ki_write_8(m, m.A[reg], data)
          [] mode = 3 -> at(EA_AY_PI(m, 1))
          [] mode = 4 -> at(EA_AY_PD(m, 1))
          [] mode = 5 -> at(EA_AY_DI(m))
          [] mode = 6 -> at(EA_AY_IX(m))
          [] mode = 7 /\ reg = 1 -> at(AbsLong(m))
          [] mode = 7 /\ reg = 2 -> at(EA_PCDI(m))
          [] OTHER -> fatalerror(m)

WRITE_EA_16(m, ea, data) ==
    LET mode == EaMode(ea)
        reg  == EaReg(ea)
        at(m1) == m68ki_write_16(m1, m1.ret, data)
    IN  CASE mode = 0 -> [m EXCEPT !.D[reg] = <<0, data>>]
          [] mode = 2 -> m68ki_write_16(m, m.A[reg], data)
          [] mode = 3 -> at(EA_AY_PI(m, 2))
          [] mode = 4 -> at(EA_AY_PD(m, 2))
          [] mode = 5 -> at(EA_AY_DI(m))
          [] mode = 6 -> at(EA_AY_IX(m))
          [] mode = 7 /\ reg = 1 -> at(AbsLong(m))
          [] mode = 7 /\ reg = 2 -> at(EA_PCDI(m))
          [] OTHER -> fatalerror(m)

WRITE_EA_32(m, ea, data) ==
    LET mode == EaMode(ea)
        reg  == EaReg(ea)
        at(m1) == m68ki_write_32(m1, m1.ret, data)
    IN  CASE mode = 0 -> [m EXCEPT !.D[reg] = data]
          [] mode = 1 -> [m EXCEPT !.A[reg] = data]
          [] mode = 2 -> m68ki_write_32(m, m.A[reg], data)
          [] mode = 3 -> at(EA_AY_PI(m, 4))
          [] mode = 4 -> at(EA_AY_PD(m, 4))
          [] mode = 5 -> at(EA_AY_DI(m))
          [] mode = 6 -> at(EA_AY_IX(m))
          [] mode = 7 /\ reg = 1 -> at(AbsLong(m))
          [] mode = 7 /\ reg = 2 -> at(EA_PCDI(m))
          [] OTHER -> fatalerror(m)

\* m68ki_write_32(ea+0, data >> 32); m68ki_write_32(ea+4, (uint32_t)data)
Write64At(m, a, data) ==
    m68ki_write_32(m68ki_write_32(m, a, <<data[1], data[2]>>),
                   Add32(a, 4), <<data[3], data[4]>>)

WRITE_EA_64(m, ea, data) ==
    LET mode == EaMode(ea)
        reg  == EaReg(ea)
    IN  CASE mode = 2 -> Write64At(m, m.A[reg], data)
          [] mode = 4 ->
                LET m1 == [m EXCEPT !.A[reg] = Add32(@, -8)]
                IN  Write64At(m1, m1.A[reg], data)
          [] mode = 5 -> LET m1 == EA_AY_DI(m) IN Write64At(m1, m1.ret, data)
          [] OTHER -> fatalerror(m)

READ_EA_FPE_By8(m, ea) ==
    \* a variant that advances the address register by 8 instead of 12
    LET reg == EaReg(ea)
    IN  IF EaMode(ea) = 3
        THEN Read64At([m EXCEPT !.A[reg] = Add32(@, 8)], m.A[reg])
        ELSE fatalerror(m)

READ_EA_FPE(m, ea) ==
    LET mode == EaMode(ea)
        reg  == EaReg(ea)
    IN  CASE mode = 3 -> Read64At([m EXCEPT !.A[reg] = Add32(@, 12)], m.A[reg])
          [] OTHER -> fatalerror(m)

WRITE_EA_FPE_By8(m, ea, fpr) ==
    \* a variant that stores the operand in 8 bytes: no third long word
    LET reg == EaReg(ea)
    IN  IF EaMode(ea) = 4
        THEN LET m1 == [m EXCEPT !.A[reg] = Add32(@, -8)]
             IN  Write64At(m1, m1.A[reg], fpr)
        ELSE fatalerror(m)

WRITE_EA_FPE(m, ea, fpr) ==
    LET mode == EaMode(ea)
        reg  == EaReg(ea)
    IN  CASE mode = 4 ->
                LET m1 == [m EXCEPT !.A[reg] = Add32(@, -12)]
                    a  == m1.A[reg]
                IN  m68ki_write_32(Write64At(m1, a, fpr), Add32(a, 8), ZERO32)
          [] OTHER -> fatalerror(m)

(***************************************************************************)
(* IEEE-754 double and single precision, on bit patterns.                  *)
(* A bit string is a sequence of 0/1, most significant first.              *)
(***************************************************************************)
RECURSIVE Bits(_, _)
Bits(n, v) == IF n = 0 THEN <<>> ELSE Append(Bits(n - 1, v \div 2), v % 2)

RECURSIVE BitsVal(_)
BitsVal(b) ==
    IF b = <<>> THEN 0 ELSE 2 * BitsVal(SubSeq(b, 1, Len(b) - 1)) + b[Len(b)]

Zeros(n) == [i \in 1..n |-> 0]

RECURSIVE BitLen(_)
BitLen(v) == IF v = 0 THEN 0 ELSE 1 + BitLen(v \div 2)

RECURSIVE Pow2(_)
Pow2(n) == IF n = 0 THEN 1 ELSE 2 * Pow2(n - 1)

\* index of the first 1 of a bit string that has one
FirstOne(b) == CHOOSE i \in 1..Len(b) : b[i] = 1 /\ \A j \in 1..(i - 1) : b[j] = 0

FSign(p) == p[1] \div 32768
FExp(p)  == (p[1] \div 16) % 2048
Frac52(p) == Bits(4, p[1] % 16) \o Bits(16, p[2]) \o Bits(16, p[3]) \o Bits(16, p[4])
FracZero(p) == p[1] % 16 = 0 /\ p[2] = 0 /\ p[3] = 0 /\ p[4] = 0

IsNaN(p)  == FExp(p) = 2047 /\ ~FracZero(p)
IsInf(p)  == FExp(p) = 2047 /\ FracZero(p)
IsZero(p) == FExp(p) = 0 /\ FracZero(p)

Pack64(s, E, f) ==
    <<s * 32768 + E * 16 + BitsVal(SubSeq(f, 1, 4)), BitsVal(SubSeq(f, 5, 20)),
      BitsVal(SubSeq(f, 21, 36)), BitsVal(SubSeq(f, 37, 52))>>

FInf(s)  == Pack64(s, 2047, Zeros(52))
FZero(s) == Pack64(s, 0, Zeros(52))
\* the NaN an invalid operation produces: its sign depends on the host
\* (0xFFF8... on x86, 0x7FF8... elsewhere)
DefaultNaNs == {<<32760, 0, 0, 0>>, <<65528, 0, 0, 0>>}
Quiet(p) == <<BitOr(p[1], 8), p[2], p[3], p[4]>>
\* a NaN operand propagates, quieted; with two NaN operands either may
NaNOf(a, b) == {Quiet(x) : x \in {y \in {a, b} : IsNaN(y)}}

\* fabs() and unary minus act on the sign bit alone
FAbsBits(p) == <<p[1] % 32768, p[2], p[3], p[4]>>
FNegBits(p) == <<(p[1] + 32768) % W16, p[2], p[3], p[4]>>

(* Finite non-zero normal doubles whose significand fits a TLC integer     *)
(* are handled as s * m * 2^e with m odd.                                  *)
RECURSIVE OddPart(_)
OddPart(m) == IF m % 2 = 1 THEN m ELSE OddPart(m \div 2)
RECURSIVE TwoPart(_)
TwoPart(m) == IF m % 2 = 1 THEN 0 ELSE 1 + TwoPart(m \div 2)

Sig21(p) == 1048576 + (p[1] % 16) * W16 + p[2]
Small(p) ==
    /\ FExp(p) \in 1..2046 /\ p[3] = 0 /\ p[4] = 0
    /\ OddPart(Sig21(p)) < Pow2(MaxSigBits)
Num(p) == [s |-> FSign(p), m |-> OddPart(Sig21(p)),
           e |-> FExp(p) - 1043 + TwoPart(Sig21(p))]

\* the double s * m * 2^e (0 < m < 2^30), exact; overflow gives infinity;
\* a result below the normal range is outside the modelled domain
EncodeNum(s, m, e) ==
    LET nb == BitLen(m)
        E  == e + nb - 1 + 1023
    IN  IF E > 2046 THEN {FInf(s)}
        ELSE IF E < 1 THEN {}
        ELSE {Pack64(s, E, Tail(Bits(nb, m)) \o Zeros(53 - nb))}

Signed(n) == IF n.s = 1 THEN -n.m ELSE n.m
Abs(v) == IF v < 0 THEN -v ELSE v

\* a + b
FAdd(a, b) ==
    IF IsNaN(a) \/ IsNaN(b) THEN NaNOf(a, b)
    ELSE IF IsInf(a) /\ IsInf(b) THEN (IF FSign(a) = FSign(b) THEN {a} ELSE DefaultNaNs)
    ELSE IF IsInf(a) THEN {a}
    ELSE IF IsInf(b) THEN {b}
    ELSE IF IsZero(a) /\ IsZero(b) THEN {FZero(FSign(a) * FSign(b))}
    ELSE IF IsZero(a) THEN {b}
    ELSE IF IsZero(b) THEN {a}
    ELSE IF Small(a) /\ Small(b) THEN
        LET x == Num(a)
            y == Num(b)
            e == IF x.e < y.e THEN x.e ELSE y.e
        IN  IF x.e - e > 20 - MaxSigBits \/ y.e - e > 20 - MaxSigBits THEN {}
            ELSE LET v == Signed(x) * Pow2(x.e - e) + Signed(y) * Pow2(y.e - e)
                 IN  IF v = 0 THEN {FZero(0)}
                     ELSE EncodeNum(Bool(v < 0), Abs(v), e)
    ELSE {}

\* a - b
FSub(a, b) == IF IsNaN(a) \/ IsNaN(b) THEN NaNOf(a, b) ELSE FAdd(a, FNegBits(b))

\* a * b
FMul(a, b) ==
    LET s == (FSign(a) + FSign(b)) % 2
    IN  IF IsNaN(a) \/ IsNaN(b) THEN NaNOf(a, b)
        ELSE IF (IsInf(a) /\ IsZero(b)) \/ (IsZero(a) /\ IsInf(b)) THEN DefaultNaNs
        ELSE IF IsInf(a) \/ IsInf(b) THEN {FInf(s)}
        ELSE IF IsZero(a) \/ IsZero(b) THEN {FZero(s)}
        ELSE IF Small(a) /\ Small(b)
             THEN EncodeNum(s, Num(a).m * Num(b).m, Num(a).e + Num(b).e)
        ELSE {}

\* m1 / m2 * 2^e for odd m1, m2 with m2 not dividing m1: the quotient
\* rounded to 53 bits, to nearest, ties to even.  The 52 fraction bits are
\* produced 13 at a time by long division (y < 2^17, so r * 2^13 fits).
DivRound(s, m1, m2, e) ==
    LET d  == BitLen(m1) - BitLen(m2)
        x0 == IF d < 0 THEN m1 * Pow2(-d) ELSE m1
        y  == IF d > 0 THEN m2 * Pow2(d) ELSE m2
        lt == x0 < y
        x  == IF lt THEN 2 * x0 ELSE x0
        X  == e + d - Bool(lt)
        r0 == x - y
        q1 == (r0 * 8192) \div y
        r1 == (r0 * 8192) % y
        q2 == (r1 * 8192) \div y
        r2 == (r1 * 8192) % y
        q3 == (r2 * 8192) \div y
        r3 == (r2 * 8192) % y
        q4 == (r3 * 8192) \div y
        r4 == (r3 * 8192) % y
        up == Bool(2 * r4 > y \/ (2 * r4 = y /\ q4 % 2 = 1))
        c4 == q4 + up
        c3 == q3 + c4 \div 8192
        c2 == q2 + c3 \div 8192
        c1 == q1 + c2 \div 8192
        f  == Bits(13, c1 % 8192) \o Bits(13, c2 % 8192)
              \o Bits(13, c3 % 8192) \o Bits(13, c4 % 8192)
        X1 == X + c1 \div 8192
    IN  IF X1 + 1023 > 2046 THEN {FInf(s)}
        ELSE IF X1 + 1023 < 1 THEN {}
        ELSE {Pack64(s, X1 + 1023, f)}

\* a / b
FDiv(a, b) ==
    LET s == (FSign(a) + FSign(b)) % 2
    IN  IF IsNaN(a) \/ IsNaN(b) THEN NaNOf(a, b)
        ELSE IF (IsInf(a) /\ IsInf(b)) \/ (IsZero(a) /\ IsZero(b)) THEN DefaultNaNs
        ELSE IF IsInf(a) \/ IsZero(b) THEN {FInf(s)}
        ELSE IF IsInf(b) \/ IsZero(a) THEN {FZero(s)}
        ELSE IF Small(a) /\ Small(b) THEN
            LET x == Num(a)
                y == Num(b)
            IN  IF x.m % y.m = 0 THEN EncodeNum(s, x.m \div y.m, x.e - y.e)
                ELSE DivRound(s, x.m, y.m, x.e - y.e)
        ELSE {}

\* sqrt(a): exact roots only; other finite operands are outside the domain
FSqrt(a) ==
    IF IsNaN(a) THEN {Quiet(a)}
    ELSE IF IsZero(a) THEN {a}
    ELSE IF FSign(a) = 1 THEN DefaultNaNs
    ELSE IF IsInf(a) THEN {a}
    ELSE IF Small(a) /\ Num(a).e % 2 = 0 THEN
        UNION {EncodeNum(0, r, Num(a).e \div 2) :
                  r \in {q \in 1..Pow2(MaxSigBits \div 2 + 1) : q * q = Num(a).m}}
    ELSE {}

(***************************************************************************)
(* Conversions between the operand formats and double.                     *)
(***************************************************************************)
Neg32(x) == Add32(Not32(x), 1)

\* (double)(int32_t)u : exact
I32ToDouble(u) ==
    LET neg  == u[1] >= 32768
        mag  == IF neg THEN Neg32(u) ELSE u
        b    == Bits(16, mag[1]) \o Bits(16, mag[2])
        k    == FirstOne(b)
    IN  IF mag = ZERO32 THEN FZero(0)
        ELSE Pack64(Bool(neg), 1023 + (32 - k), SubSeq(b, k + 1, 32) \o Zeros(20 + k))

\* (double)(int16_t)w and (double)(int8_t)b
I16ToDouble(w) == I32ToDouble(MAKE_INT_16(w))
I8ToDouble(b)  == I32ToDouble(MAKE_INT_8(b))

\* (double)f for the float with bit pattern u : exact; a NaN comes out quiet
SingleToDouble(u) ==
    LET s  == u[1] \div 32768
        e8 == (u[1] \div 128) % 256
        f  == Bits(7, u[1] % 128) \o Bits(16, u[2])
    IN  IF e8 = 255 THEN
            (IF f = Zeros(23) THEN FInf(s)
             ELSE Quiet(Pack64(s, 2047, f \o Zeros(29))))
        ELSE IF e8 = 0 THEN
            (IF f = Zeros(23) THEN FZero(s)
             ELSE LET k == FirstOne(f)
                  IN  Pack64(s, 897 - k, SubSeq(f, k + 1, 23) \o Zeros(29 + k)))
        ELSE Pack64(s, e8 + 896, f \o Zeros(29))

\* what (int32_t)d yields where C leaves it undefined (NaN, out of range):
\* 0x80000000 on x86, a saturated value or 0 on other hosts
UBInt32 == {<<32768, 0>>, <<32767, 65535>>, <<0, 0>>}

\* (int32_t)d : truncation toward zero
DoubleToI32(p) ==
    LET X    == FExp(p) - 1023
        sig  == <<1>> \o Frac52(p)
        b    == Zeros(31 - X) \o SubSeq(sig, 1, X + 1)
        mag  == <<BitsVal(SubSeq(b, 1, 16)), BitsVal(SubSeq(b, 17, 32))>>
    IN  IF FExp(p) = 2047 THEN UBInt32
        ELSE IF X < 0 THEN {ZERO32}
        ELSE IF X <= 30 THEN {IF FSign(p) = 1 THEN Neg32(mag) ELSE mag}
        ELSE IF X = 31 /\ FSign(p) = 1 /\ SubSeq(sig, 2, 32) = Zeros(31)
             THEN {<<32768, 0>>}
        ELSE UBInt32

\* (int16_t)d : the low half of the 32-bit conversion
DoubleToI16(p) == {v[2] : v \in DoubleToI32(p)}

\* (float)d : round to nearest, ties to even
DoubleToSingle(p) ==
    LET s    == FSign(p)
        X    == FExp(p) - 1023
        sh   == IF X >= -126 THEN 0 ELSE IF -126 - X > 26 THEN 26 ELSE -126 - X
        b    == Zeros(sh) \o <<1>> \o Frac52(p)
        kept == BitsVal(SubSeq(b, 1, 24))
        up   == b[25] = 1 /\ (kept % 2 = 1 \/ \E i \in 26..Len(b) : b[i] = 1)
        k1   == kept + Bool(up)
        e8   == IF X >= -126 THEN X + 127 ELSE 1
        v    == (e8 - 1) * 8388608 + k1
        Put(x) == <<s * 32768 + x \div W16, x % W16>>
    IN  IF IsNaN(p) THEN <<BitOr(s * 32768 + 32640 + BitsVal(SubSeq(Frac52(p), 1, 7)), 64),
                           BitsVal(SubSeq(Frac52(p), 8, 23))>>
        ELSE IF IsInf(p) \/ X > 127 THEN Put(2139095040)
        ELSE IF FExp(p) = 0 THEN Put(0)
        ELSE IF v >= 2139095040 THEN Put(2139095040)
        ELSE Put(v)

(***************************************************************************)
(* Instruction dispatcher.  Operators whose result depends on the host     *)
(* (NaN signs, undefined conversions) give the set of possible states.     *)
(***************************************************************************)
SetCC(m, r) == [m EXCEPT !.FPSR = SET_CONDITION_CODES(m.FPSR, r), !.res = r, !.cc = TRUE]

\* the source operand of fpgen_rm_reg, as a double, in .ret
FpgenSource(m, w2) ==
    LET ea  == m.IR % 64
        rm  == (w2 \div 16384) % 2
        src == (w2 \div 1024) % 8
        conv(m1, f(_)) == IF m1.halt THEN m1 ELSE [m1 EXCEPT !.ret = f(m1.ret)]
    IN  IF rm = 1 THEN
            CASE src = 0 -> conv(READ_EA_32(m, ea), I32ToDouble)
              [] src = 1 -> conv(READ_EA_32(m, ea), SingleToDouble)
              [] src = 4 -> conv(READ_EA_16(m, ea), I16ToDouble)
              [] src = 5 -> READ_EA_64(m, ea)
              [] src = 6 -> conv(READ_EA_8(m, ea), I8ToDouble)
              [] OTHER   -> fatalerror(m)
        ELSE [m EXCEPT !.ret = m.FP[src]]

fpgen_rm_reg_DivFlags(m, w2) ==
    \* a variant in which FDIV, too, sets the condition codes
    LET dst    == (w2 \div 128) % 8
        opmode == w2 % 128
        m1     == FpgenSource(m, w2)
        source == m1.ret
        m2     == [m1 EXCEPT !.src = source]
        put(r, n) == USE_CYCLES(SetCC([m2 EXCEPT !.FP[dst] = r], r), n)
    IN  IF m1.halt THEN {m1}
        ELSE CASE opmode = 0  -> {USE_CYCLES([m2 EXCEPT !.FP[dst] = source], 4)}
               [] opmode = 4  -> {put(r, 109) : r \in FSqrt(source)}
               [] opmode = 24 -> {put(FAbsBits(source), 3)}
               [] opmode = 26 -> {put(FNegBits(source), 3)}
               [] opmode = 32 -> {put(r, 43) : r \in FDiv(m.FP[dst], source)}
               [] opmode = 34 -> {put(r, 9) : r \in FAdd(m.FP[dst], source)}
               [] opmode = 35 -> {put(r, 11) : r \in FMul(m.FP[dst], source)}
               [] opmode = 40 -> {put(r, 9) : r \in FSub(m.FP[dst], source)}
               [] opmode = 56 -> {USE_CYCLES(SetCC(m2, r), 7) : r \in FSub(m.FP[dst], source)}
               [] opmode = 58 -> {USE_CYCLES(SetCC(m2, source), 7)}
               [] OTHER -> {fatalerror(m2)}

fpgen_rm_reg(m, w2) ==
    LET dst    == (w2 \div 128) % 8
        opmode == w2 % 128
        m1     == FpgenSource(m, w2)
        source == m1.ret
        m2     == [m1 EXCEPT !.src = source]
        put(r, n) == USE_CYCLES(SetCC([m2 EXCEPT !.FP[dst] = r], r), n)
    IN  IF m1.halt THEN {m1}
        ELSE CASE opmode = 0  -> {USE_CYCLES([m2 EXCEPT !.FP[dst] = source], 4)}
               [] opmode = 4  -> {put(r, 109) : r \in FSqrt(source)}
               [] opmode = 24 -> {put(FAbsBits(source), 3)}
               [] opmode = 26 -> {put(FNegBits(source), 3)}
               [] opmode = 32 -> {USE_CYCLES([m2 EXCEPT !.FP[dst] = r], 43) :
                                     r \in FDiv(m.FP[dst], source)}
               [] opmode = 34 -> {put(r, 9) : r \in FAdd(m.FP[dst], source)}
               [] opmode = 35 -> {put(r, 11) : r \in FMul(m.FP[dst], source)}
               [] opmode = 40 -> {put(r, 9) : r \in FSub(m.FP[dst], source)}
               [] opmode = 56 -> {USE_CYCLES(SetCC(m2, r), 7) : r \in FSub(m.FP[dst], source)}
               [] opmode = 58 -> {USE_CYCLES(SetCC(m2, source), 7)}
               [] OTHER -> {fatalerror(m2)}

fmove_reg_mem(m, w2) ==
    LET ea  == m.IR % 64
        src == (w2 \div 128) % 8
        dst == (w2 \div 1024) % 8
        fin(m1) == IF m1.halt THEN m1 ELSE USE_CYCLES(m1, 12)
    IN  CASE dst = 0 -> {fin(WRITE_EA_32(m, ea, d)) : d \in DoubleToI32(m.FP[src])}
          [] dst = 1 -> {fin(WRITE_EA_32(m, ea, DoubleToSingle(m.FP[src])))}
          [] dst = 4 -> {fin(WRITE_EA_16(m, ea, d)) : d \in DoubleToI16(m.FP[src])}
          [] dst = 5 -> {fin(WRITE_EA_64(m, ea, m.FP[src]))}
          [] dst = 6 -> {fin(WRITE_EA_8(m, ea, d % 256)) : d \in DoubleToI16(m.FP[src])}
          [] OTHER   -> {fatalerror(m)}

fmove_fpcr_KeepCC(m, w2) ==
    \* a variant whose move into FPSR keeps the four condition bits
    LET ea  == m.IR % 64
        dir == (w2 \div 8192) % 2
        reg == (w2 \div 1024) % 8
        rd  == READ_EA_32(m, ea)
        ccm == Or32(Or32(FPCC_N, FPCC_Z), Or32(FPCC_I, FPCC_NAN))
        fin(m1) == IF m1.halt THEN m1 ELSE USE_CYCLES(m1, 10)
    IN  IF dir = 1 THEN
            CASE reg = 1 -> fin(WRITE_EA_32(m, ea, m.FPIAR))
              [] reg = 2 -> fin(WRITE_EA_32(m, ea, m.FPSR))
              [] reg = 4 -> fin(WRITE_EA_32(m, ea, m.FPCR))
              [] OTHER   -> fatalerror(m)
        ELSE
            CASE reg = 1 -> fin(IF rd.halt THEN rd ELSE [rd EXCEPT !.FPIAR = rd.ret])
              [] reg = 2 -> fin(IF rd.halt THEN rd
                                ELSE [rd EXCEPT !.FPSR = Or32(And32(rd.ret, Not32(ccm)),
                                                              And32(m.FPSR, ccm))])
              [] reg = 4 -> fin(IF rd.halt THEN rd ELSE [rd EXCEPT !.FPCR = rd.ret])
              [] OTHER   -> fatalerror(m)

fmove_fpcr(m, w2) ==
    LET ea  == m.IR % 64
        dir == (w2 \div 8192) % 2
        reg == (w2 \div 1024) % 8
        rd  == READ_EA_32(m, ea)
        fin(m1) == IF m1.halt THEN m1 ELSE USE_CYCLES(m1, 10)
    IN  IF dir = 1 THEN
            CASE reg = 1 -> fin(WRITE_EA_32(m, ea, m.FPIAR))
              [] reg = 2 -> fin(WRITE_EA_32(m, ea, m.FPSR))
              [] reg = 4 -> fin(WRITE_EA_32(m, ea, m.FPCR))
              [] OTHER   -> fatalerror(m)
        ELSE
            CASE reg = 1 -> fin(IF rd.halt THEN rd ELSE [rd EXCEPT !.FPIAR = rd.ret])
              [] reg = 2 -> fin(IF rd.halt THEN rd ELSE [rd EXCEPT !.FPSR = rd.ret])
              [] reg = 4 -> fin(IF rd.halt THEN rd ELSE [rd EXCEPT !.FPCR = rd.ret])
              [] OTHER   -> fatalerror(m)

Bit(v, i) == (v \div Pow2(i)) % 2

MovemStoreDown(m, ea, reglist, i) ==
    \* a variant that walks the register list from register 7 down to register 0
    LET RECURSIVE go(_, _)
        go(mm, j) ==
            IF j < i \/ mm.halt THEN mm
            ELSE IF Bit(reglist, j) = 1
                 THEN LET m1 == WRITE_EA_FPE(mm, ea, mm.FP[j])
                      IN  go(IF m1.halt THEN m1 ELSE USE_CYCLES(m1, 2), j - 1)
                 ELSE go(mm, j - 1)
    IN  go(m, 7)

\* for (i = 0; i < 8; i++) if (reglist & (1 << i)) { WRITE_EA_FPE(ea, REG_FP[i]); ... }
RECURSIVE MovemStore(_, _, _, _)
MovemStore(m, ea, reglist, i) ==
    IF i = 8 \/ m.halt THEN m
    ELSE IF Bit(reglist, i) = 1
         THEN LET m1 == WRITE_EA_FPE(m, ea, m.FP[i])
              IN  MovemStore(IF m1.halt THEN m1 ELSE USE_CYCLES(m1, 2), ea, reglist, i + 1)
         ELSE MovemStore(m, ea, reglist, i + 1)

MovemLoadSame(m, ea, reglist, i) ==
    \* a variant that loads set bit i into register i, as the store direction does
    LET RECURSIVE go(_, _)
        go(mm, j) ==
            IF j = 8 \/ mm.halt THEN mm
            ELSE IF Bit(reglist, j) = 1
                 THEN LET m1 == READ_EA_FPE(mm, ea)
                      IN  go(IF m1.halt THEN m1
                             ELSE USE_CYCLES([m1 EXCEPT !.FP[j] = m1.ret], 2), j + 1)
                 ELSE go(mm, j + 1)
    IN  go(m, i)

\* for (i = 0; i < 8; i++) if (reglist & (1 << i)) { REG_FP[7-i] = READ_EA_FPE(ea); ... }
RECURSIVE MovemLoad(_, _, _, _)
MovemLoad(m, ea, reglist, i) ==
    IF i = 8 \/ m.halt THEN m
    ELSE IF Bit(reglist, i) = 1
         THEN LET m1 == READ_EA_FPE(m, ea)
              IN  MovemLoad(IF m1.halt THEN m1
                            ELSE USE_CYCLES([m1 EXCEPT !.FP[7 - i] = m1.ret], 2),
                            ea, reglist, i + 1)
         ELSE MovemLoad(m, ea, reglist, i + 1)

fmovem(m, w2) ==
    LET ea      == m.IR % 64
        dir     == (w2 \div 8192) % 2
        mode    == (w2 \div 2048) % 4
        reglist == w2 % 256
    IN  IF dir = 1
        THEN (IF mode = 0 THEN MovemStore(m, ea, reglist, 0) ELSE fatalerror(m))
        ELSE (IF mode = 2 THEN MovemLoad(m, ea, reglist, 0) ELSE fatalerror(m))

\* m68ki_branch_16 / m68ki_branch_32: a relative branch of the program counter
m68ki_branch(m, offset) == [m EXCEPT !.PC = AddU32(m.PC, offset), !.taken = TRUE]

m68ki_trace_t0(m) == [m EXCEPT !.t0 = TRUE]

FbccBody_ChargeTaken(m, offset, adj) ==
    \* a variant that charges the 7 cycles only when the branch is taken
    LET condition == m.IR % 64
        t == TEST_CONDITION(m.FPSR, condition)
    IN  IF t.fatal THEN fatalerror(m)
        ELSE IF t.r # 0
             THEN USE_CYCLES(m68ki_branch(m68ki_trace_t0(m), Add32(offset, -adj)), 7)
             ELSE m

\* the common body of fbcc16 and fbcc32: offset already read, adj bytes consumed
FbccBody(m, offset, adj) ==
    LET condition == m.IR % 64
        t == TEST_CONDITION(m.FPSR, condition)
    IN  IF t.fatal THEN fatalerror(m)
        ELSE USE_CYCLES(IF t.r # 0
                        THEN m68ki_branch(m68ki_trace_t0(m), Add32(offset, -adj))
                        ELSE m, 7)

fbcc16_NoAdjust(m) ==
    \* a variant that forgets the adjustment for the displacement word consumed
    LET m1 == OPER_I_16(m) IN FbccBody(m1, MAKE_INT_16(m1.ret), 0)

fbcc16(m) ==
    LET m1 == OPER_I_16(m) IN FbccBody(m1, MAKE_INT_16(m1.ret), 2)

fbcc32(m) ==
    LET m1 == OPER_I_32(m) IN FbccBody(m1, m1.ret, 4)

\* the states m68040_fpu_op0 can end in, REG_IR holding the opcode word
m68040_fpu_op0(m) ==
    LET main == (m.IR \div 64) % 4
        m1   == OPER_I_16(m)
        w2   == m1.ret
        sub  == (w2 \div 8192) % 8
    IN  CASE main = 0 ->
                (CASE sub \in {0, 2} -> fpgen_rm_reg(m1, w2)
                   [] sub = 3       -> fmove_reg_mem(m1, w2)
                   [] sub \in {4, 5} -> {fmove_fpcr(m1, w2)}
                   [] sub \in {6, 7} -> {fmovem(m1, w2)}
                   [] OTHER         -> {fatalerror(m1)})
          [] main = 2 -> {fbcc16(m)}
          [] main = 3 -> {fbcc32(m)}
          [] OTHER    -> {fatalerror(m)}

\* m68040_fpu_op1: FSAVE / FRESTORE
m68040_fpu_op1(m) ==
    LET ea == m.IR % 64
        op == (m.IR \div 64) % 4
    IN  CASE op = 0 -> WRITE_EA_32(m, ea, ZERO32)
          [] op = 1 -> READ_EA_32(m, ea)
          [] OTHER  -> fatalerror(m)

(***************************************************************************)
(* Initial state: a register file and memory image with one value of each  *)
(* kind the operations distinguish.                                        *)
(***************************************************************************)
Regs(s) == [i \in 0..7 |-> s[i + 1]]

InitD == Regs(<< <<0, 5>>,          \* D0 = 5
                 <<65535, 65535>>,  \* D1 = -1
                 <<16320, 0>>,      \* D2 = 0x3FC00000, 1.5f
                 <<32768, 0>>,      \* D3 = 0x80000000
                 <<0, 33000>>,      \* D4: low word negative as int16
                 <<32640, 1>>,      \* D5 = 0x7F800001, a single NaN
                 <<0, 200>>,        \* D6: low byte negative as int8
                 <<0, 0>> >>)

InitA == Regs(<< <<0, 4096>>,       \* A0 = 0x00001000
                 <<0, 4>>,          \* A1 = 0x00000004: -(A1) wraps below 0
                 <<65535, 65532>>,  \* A2 = 0xFFFFFFFC: (A2)+ wraps above
                 <<0, 4104>>,       \* A3 = 0x00001008
                 <<0, 8192>>, <<0, 8192>>, <<0, 8192>>,
                 <<0, 12288>> >>)   \* A7 = 0x00003000

InitFP == Regs(<< <<16384, 0, 0, 0>>,   \* FP0 = 2.0
                  <<16392, 0, 0, 0>>,   \* FP1 = 3.0
                  <<49144, 0, 0, 0>>,   \* FP2 = -1.5
                  <<32752, 0, 0, 0>>,   \* FP3 = +infinity
                  <<32752, 0, 0, 1>>,   \* FP4 = a signalling NaN
                  <<32768, 0, 0, 0>>,   \* FP5 = -0.0
                  <<16400, 0, 0, 0>>,   \* FP6 = 4.0
                  <<0, 0, 0, 0>> >>)    \* FP7 = +0.0

\* 0x1000: the double 2.25; 0x1008: the long 0xC0000000 (-2.0f); rest 0
InitMem == (<<0, 4096>> :> 64) @@ (<<0, 4097>> :> 2) @@ (<<0, 4104>> :> 192)

FpsrInit == {ZERO32, <<4095, 65535>>, <<1280, 128>>}

NoLast == [op |-> "none", ir |-> 0, is |-> <<>>, pc |-> ZERO32, ea |-> 0, n |-> 0,
           val |-> 0, src |-> ZERO64, res |-> ZERO64, cc |-> FALSE, taken |-> FALSE,
           t0 |-> FALSE, ret |-> 0, fpsr |-> ZERO32]

InitRegs ==
    /\ REG_D = InitD /\ REG_A = InitA /\ REG_FP = InitFP
    /\ REG_FPCR = ZERO32 /\ REG_FPIAR = ZERO32
    /\ REG_PC = <<0, 256>> /\ REG_IR = 0
    /\ mem = InitMem /\ cycles = 0 /\ halted = FALSE
    /\ bus = <<>> /\ last = NoLast /\ icount = 0

Init ==
    /\ InitRegs
    /\ REG_FPSR \in FpsrInit
    /\ given = <<>>

\* the state after an operation: the registers and memory of m, and the record
Commit(m, rec) ==
    /\ REG_D' = m.D /\ REG_A' = m.A /\ REG_FP' = m.FP
    /\ REG_FPSR' = m.FPSR /\ REG_FPCR' = m.FPCR /\ REG_FPIAR' = m.FPIAR
    /\ REG_PC' = m.PC /\ REG_IR' = m.IR
    /\ mem' = m.mem /\ cycles' = m.cyc /\ halted' = m.halt /\ bus' = m.bus
    /\ last' = [rec EXCEPT !.src = m.src, !.res = m.res, !.cc = m.cc,
                           !.taken = m.taken, !.t0 = m.t0, !.ret = m.ret,
                           !.fpsr = REG_FPSR]
    /\ icount' = icount + 1
    /\ UNCHANGED given

Ready == ~halted /\ icount < MaxOps

\* The core has fetched the opcode word ir (REG_PC is past it) and calls
\* m68040_fpu_op0; stream is what follows the opcode word in memory.
Exec0(ir, stream, name) ==
    LET m0 == [Cur(stream) EXCEPT !.IR = ir, !.PC = Add32(REG_PC, 2)]
    IN  \E m \in m68040_fpu_op0(m0) :
            Commit(m, [NoLast EXCEPT !.op = name, !.ir = ir, !.is = stream,
                                     !.pc = m0.PC])

Op0(ir, stream) == Ready /\ Exec0(ir, stream, "op0")

\* ... and m68040_fpu_op1
Op1(ir, stream) ==
    /\ Ready
    /\ LET m0 == [Cur(stream) EXCEPT !.IR = ir, !.PC = Add32(REG_PC, 2)]
       IN  Commit(m68040_fpu_op1(m0),
                  [NoLast EXCEPT !.op = "op1", !.ir = ir, !.is = stream, !.pc = m0.PC])

(***************************************************************************)
(* Instruction encodings.                                                  *)
(***************************************************************************)
IR0(main, ea) == 61952 + main * 64 + ea     \* 0xF200 | main << 6 | ea
IR1(op, ea)   == 62208 + op * 64 + ea       \* 0xF300 | op << 6 | ea
W2Alu(rm, src, dst, opmode) == rm * 16384 + src * 1024 + dst * 128 + opmode
W2Mem(fmt, src)             == 24576 + fmt * 1024 + src * 128
W2Fpcr(dir, reg)            == 32768 + dir * 8192 + reg * 1024
W2Movem(dir, mode, reglist) == 49152 + dir * 8192 + mode * 2048 + reglist

EA_Dn(n)  == n
EA_An(n)  == 8 + n
EA_AI(n)  == 16 + n     \* (An)
EA_PI(n)  == 24 + n     \* (An)+
EA_PD(n)  == 32 + n     \* -(An)
EA_DI(n)  == 40 + n     \* (d16,An)
EA_IMM    == <<60>>[1]  \* #<data>

AluOps  == {0, 4, 24, 26, 32, 34, 35, 40, 56, 58}
FlagOps == {4, 24, 26, 34, 35, 40, 56, 58}

(***************************************************************************)
(* Spec: the subsystem running instruction after instruction.  Each action *)
(* is one instruction family, its encoding drawn from a small set.         *)
(***************************************************************************)
FpgenReg ==
    \E sd \in {<<1, 0>>, <<4, 0>>, <<7, 6>>}, opmode \in {0, 26, 32, 34, 58} :
        Op0(IR0(0, 0), <<W2Alu(0, sd[1], sd[2], opmode)>>)

FpgenMem ==
    \E c \in {<<EA_Dn(1), 0, 58>>, <<EA_PI(0), 5, 0>>, <<EA_Dn(2), 1, 56>>} :
        Op0(IR0(0, c[1]), <<W2Alu(1, c[2], 0, c[3])>>)

FmoveRegMem ==
    \E c \in {<<EA_Dn(7), 0, 2>>, <<EA_AI(0), 5, 0>>, <<EA_PD(7), 5, 1>>,
              <<EA_Dn(7), 2, 0>>} :
        Op0(IR0(0, c[1]), <<W2Mem(c[2], c[3])>>)

FmoveFpcr ==
    \E c \in {<<EA_Dn(1), 0, 2, <<>> >>, <<EA_Dn(7), 0, 2, <<>> >>,
              <<EA_Dn(0), 0, 4, <<>> >>, <<EA_Dn(7), 1, 2, <<>> >>,
              <<EA_IMM, 0, 2, <<1024, 7>> >>, <<EA_Dn(0), 0, 0, <<>> >>} :
        Op0(IR0(0, c[1]), <<W2Fpcr(c[2], c[3])>> \o c[4])

Fmovem ==
    \E c \in {<<EA_PD(7), 1, 0, 3>>, <<EA_PD(7), 1, 0, 129>>,
              <<EA_PI(7), 0, 2, 192>>, <<EA_PI(7), 0, 2, 129>>,
              <<EA_PD(7), 1, 1, 3>>} :
        Op0(IR0(0, c[1]), <<W2Movem(c[2], c[3], c[4])>>)

Fbcc16 == \E cond \in {1, 29} : Op0(IR0(2, cond), <<16>>)

Fbcc32 == \E cond \in {15} : Op0(IR0(3, cond), <<65535, 65520>>)

BadOp0 ==
    \/ Op0(IR0(1, 0), <<>>)
    \/ Op0(IR0(0, 0), <<8192>>)

FsaveFrestore ==
    \E c \in {<<0, EA_AI(0)>>, <<1, EA_Dn(0)>>, <<2, 0>>} : Op1(IR1(c[1], c[2]), <<>>)

Next ==
    \/ FpgenReg
    \/ FpgenMem
    \/ FmoveRegMem
    \/ FmoveFpcr
    \/ Fmovem
    \/ Fbcc16
    \/ Fbcc32
    \/ BadOp0
    \/ FsaveFrestore

Spec == Init /\ [][Next]_vars

(***************************************************************************)
(* SpecOne: one instruction, drawn at the start from the encodings below   *)
(* (every value of each field of each family), executed up to MaxOps       *)
(* times.                                                                  *)
(***************************************************************************)
\* all sixteen settings of the condition bits, with the other bits clear or set
FpsrAll == {<<cc * 256, 0>> : cc \in 0..15} \cup {<<61695 + cc * 256, 65535>> : cc \in 0..15}

\* the words after the extension word: a displacement / address / immediate
Ext == <<8, 16, 0, 0>>

Instr(ir, w) == [kind |-> "op0", ir |-> ir, is |-> w]

EncAluReg ==
    {Instr(IR0(0, 0), <<W2Alu(0, src, dst, opmode)>>) :
        src \in 0..7, dst \in {0, 3, 6},
        opmode \in AluOps \cup {1, 2, 5, 25, 33, 36, 57, 59, 64, 127}}
EncAluMem ==
    {Instr(IR0(0, ea), <<W2Alu(1, fmt, 0, opmode)>> \o Ext) :
        ea \in 0..63, fmt \in 0..7, opmode \in {0, 34, 58, 1}}
EncMoveMem ==
    {Instr(IR0(0, ea), <<W2Mem(fmt, src)>> \o Ext) :
        ea \in 0..63, fmt \in 0..7, src \in {0, 2, 4}}
EncFpcr ==
    {Instr(IR0(0, ea), <<W2Fpcr(dir, reg)>> \o Ext) :
        ea \in 0..63, dir \in 0..1, reg \in 0..7}
EncMovem ==
    {Instr(IR0(0, ea), <<W2Movem(dir, mode, reglist)>>) :
        ea \in 0..63, dir \in 0..1, mode \in 0..3, reglist \in {0, 3, 129, 192}}
    \cup {Instr(IR0(0, EA_PD(7)), <<W2Movem(1, 0, reglist)>>) : reglist \in 0..255}
    \cup {Instr(IR0(0, EA_PI(0)), <<W2Movem(0, 2, reglist)>>) : reglist \in 0..255}
EncBcc ==
    {Instr(IR0(2, cond), <<d>>) : cond \in 0..63, d \in {0, 16, 65520, 32768, 32767}}
    \cup {Instr(IR0(3, cond), d) : cond \in 0..63,
             d \in {<<0, 0>>, <<0, 16>>, <<65535, 65520>>, <<32768, 4>>, <<32767, 65535>>}}
EncBad ==
    {Instr(IR0(1, ea), Ext) : ea \in {0, 16, 63}}
    \cup {Instr(IR0(0, ea), <<8192 + x>>) : ea \in {0, 16}, x \in {0, 1, 8191}}
EncOp1 == {[kind |-> "op1", ir |-> IR1(op, ea), is |-> Ext] : op \in 0..3, ea \in 0..63}

IsBcc(g) == g.kind = "op0" /\ (g.ir \div 64) % 4 \in {2, 3}

InitOne ==
    /\ InitRegs
    /\ given \in EncAluReg \cup EncAluMem \cup EncMoveMem \cup EncFpcr \cup EncMovem
                 \cup EncBcc \cup EncBad \cup EncOp1
    /\ REG_FPSR \in IF IsBcc(given) THEN FpsrAll ELSE FpsrInit

RunOp0 == given.kind = "op0" /\ Op0(given.ir, given.is)
RunOp1 == given.kind = "op1" /\ Op1(given.ir, given.is)

NextOne ==
    \/ RunOp0
    \/ RunOp1

SpecOne == InitOne /\ [][NextOne]_vars

(***************************************************************************)
(* SpecEA: the resolver on its own.  One operand specifier, width and      *)
(* value are drawn at the start; Load and Store apply the resolver's read  *)
(* and write of that width to it.                                          *)
(***************************************************************************)
EaVals(n) ==
    CASE n = 8  -> {128, 127}
      [] n = 16 -> {32769, 4660}
      [] n = 32 -> {<<57005, 48879>>, <<0, 1>>}
      [] OTHER  -> {<<49144, 0, 0, 1>>, <<16404, 4660, 22136, 39612>>}

InitEA ==
    /\ InitRegs
    /\ REG_FPSR = ZERO32
    /\ \E ea \in 0..63, n \in {8, 16, 32, 64, 96} : \E v \in EaVals(n) :
           given = [kind |-> "ea", ea |-> ea, n |-> n, val |-> v, is |-> Ext]

EaRec(op) == [NoLast EXCEPT !.op = op, !.ea = given.ea, !.n = given.n,
                            !.val = given.val, !.ir = IR0(0, given.ea)]

Load ==
    /\ Ready
    /\ LET m0 == [Cur(given.is) EXCEPT !.IR = IR0(0, given.ea)]
           ea == given.ea
       IN  Commit(CASE given.n = 8  -> READ_EA_8(m0, ea)
                    [] given.n = 16 -> READ_EA_16(m0, ea)
                    [] given.n = 32 -> READ_EA_32(m0, ea)
                    [] given.n = 64 -> READ_EA_64(m0, ea)
                    [] OTHER        -> READ_EA_FPE(m0, ea),
                  EaRec("load"))

Store ==
    /\ Ready
    /\ LET m0 == [Cur(given.is) EXCEPT !.IR = IR0(0, given.ea)]
           ea == given.ea
           v  == given.val
       IN  Commit(CASE given.n = 8  -> WRITE_EA_8(m0, ea, v)
                    [] given.n = 16 -> WRITE_EA_16(m0, ea, v)
                    [] given.n = 32 -> WRITE_EA_32(m0, ea, v)
                    [] given.n = 64 -> WRITE_EA_64(m0, ea, v)
                    [] OTHER        -> WRITE_EA_FPE(m0, ea, v),
                  EaRec("store"))

NextEA ==
    \/ Load
    \/ Store

SpecEA == InitEA /\ [][NextEA]_vars

(***************************************************************************)
(* SpecCC: the condition-code engine on its own.  A result pattern, or a   *)
(* predicate code, is drawn at the start.                                  *)
(***************************************************************************)
Patterns ==
    {<<w0, w1, w2, w3>> :
        w0 \in {0, 32768, 32752, 65520, 32760, 65528, 32753, 16368, 49136, 1, 32769,
                32751, 65519, 16, 32767, 65535},
        w1 \in {0, 1}, w2 \in {0, 32768}, w3 \in {0, 1, 65535}}

InitCC ==
    /\ InitRegs
    /\ \/ given \in {[kind |-> "cc", r |-> r] : r \in Patterns} /\ REG_FPSR \in FpsrInit
       \/ given \in {[kind |-> "test", cond |-> c] : c \in 0..63} /\ REG_FPSR \in FpsrAll

DeriveFlags ==
    /\ Ready
    /\ given.kind = "cc"
    /\ Commit(SetCC(Cur(<<>>), given.r), [NoLast EXCEPT !.op = "setcc"])

EvaluatePredicate ==
    /\ Ready
    /\ given.kind = "test"
    /\ LET t == TEST_CONDITION(REG_FPSR, given.cond)
       IN  Commit([Cur(<<>>) EXCEPT !.halt = t.fatal, !.ret = t.r],
                  [NoLast EXCEPT !.op = "test", !.n = given.cond])

NextCC ==
    \/ DeriveFlags
    \/ EvaluatePredicate

SpecCC == InitCC /\ [][NextCC]_vars

(***************************************************************************)
(* SpecRT: FMOVEM store of a register list through -(An), then any         *)
(* instructions overwriting floating-point registers, then FMOVEM load     *)
(* through (An)+ with the mirrored list.  The list and the address         *)
(* register are drawn at the start.                                        *)
(***************************************************************************)
InitRT ==
    /\ InitRegs
    /\ REG_FPSR = ZERO32
    /\ given \in [kind : {"rt"}, mask : 0..255, reg : {1, 2, 7}]

\* the opcode word and the second word of each step's instruction:
\*   store    FMOVEM <list>,-(An)
\*   clobber  FNEG FPd,FPd for d < 8, else FMOVEM (A0)+,FP0-FP7
\*   reload   FMOVEM (An)+,<list mirrored>: bit i set iff bit 7-i of the list is set
InstrRT(name, d) ==
    LET M      == given.mask
        mirror == Bit(M, 7) + 2 * Bit(M, 6) + 4 * Bit(M, 5) + 8 * Bit(M, 4)
                  + 16 * Bit(M, 3) + 32 * Bit(M, 2) + 64 * Bit(M, 1) + 128 * Bit(M, 0)
    IN  CASE name = "store"            -> <<IR0(0, EA_PD(given.reg)), W2Movem(1, 0, M)>>
          [] name = "reload"           -> <<IR0(0, EA_PI(given.reg)), W2Movem(0, 2, mirror)>>
          [] name = "clobber" /\ d < 8 -> <<IR0(0, 0), W2Alu(0, d, d, 26)>>
          [] OTHER                     -> <<IR0(0, EA_PI(0)), W2Movem(0, 2, 255)>>

\* one instruction of the sequence: the store comes first, the overwriting
\* instructions are counted against MaxOps, the load closes the sequence
RunRT(name, d) ==
    /\ CASE name = "store"   -> icount = 0
         [] name = "clobber" -> Ready /\ last.op \in {"store", "clobber"}
         [] name = "reload"  -> ~halted /\ last.op \in {"store", "clobber"}
    /\ Exec0(InstrRT(name, d)[1], <<InstrRT(name, d)[2]>>, name)

StoreList == RunRT("store", 0)

Clobber == \E d \in 0..8 : RunRT("clobber", d)

LoadList == RunRT("reload", 0)

NextRT ==
    \/ StoreList
    \/ Clobber
    \/ LoadList

SpecRT == InitRT /\ [][NextRT]_vars

(***************************************************************************)
(* Properties.  The bit fields are read off the patterns directly, not     *)
(* through the operators above.                                            *)
(***************************************************************************)
\* FPSR bits 27..24 as a number: N = 8, Z = 4, I = 2, NaN = 1
CcField(x) == (x[1] \div 256) % 16
OtherBits(x) == <<x[1] - CcField(x) * 256, x[2]>>
FlagSet(x, k) == (CcField(x) \div k) % 2 = 1

ExpField(r) == (r[1] \div 16) % 2048
MantZero(r) == r[1] % 16 = 0 /\ r[2] = 0 /\ r[3] = 0 /\ r[4] = 0
WantN(r)   == r[1] >= 32768
WantZ(r)   == r[1] % 32768 = 0 /\ r[2] = 0 /\ r[3] = 0 /\ r[4] = 0
WantI(r)   == ExpField(r) = 2047 /\ MantZero(r)
WantNaN(r) == ExpField(r) = 2047 /\ ~MantZero(r)
FlagsOf(r) == 8 * Bool(WantN(r)) + 4 * Bool(WantZ(r)) + 2 * Bool(WantI(r)) + Bool(WantNaN(r))

\* FPSR value f with its four condition bits replaced by the flags of r
Derived(f, r) == <<OtherBits(f)[1] + 256 * FlagsOf(r), f[2]>>

\* C1: after deriveFlags on any 64-bit pattern r, N = bit 63 of r, Z = low 63 bits
\* all zero, I = exponent all ones and mantissa zero, NaN = exponent all ones and
\* mantissa non-zero; so a finite non-zero r sets only N (iff negative), both
\* zeros set Z, both infinities set I, every NaN sets NaN; and every other bit of
\* FPSR keeps the value it had before.
C1_DeriveFlags ==
    last.op = "setcc" =>
        LET r == given.r
        IN  /\ FlagSet(REG_FPSR, 8) = WantN(r)
            /\ FlagSet(REG_FPSR, 4) = WantZ(r)
            /\ FlagSet(REG_FPSR, 2) = WantI(r)
            /\ FlagSet(REG_FPSR, 1) = WantNaN(r)
            /\ (ExpField(r) # 2047 /\ ~WantZ(r)
                    => CcField(REG_FPSR) = (IF r[1] >= 32768 THEN 8 ELSE 0))
            /\ OtherBits(REG_FPSR) = OtherBits(last.fpsr)

\* a negative NaN derived over an FPSR that had all four flags and all other bits set
C1_Witness ==
    /\ last.op = "setcc"
    /\ given.r = <<65520, 1, 0, 0>>
    /\ last.fpsr = <<4095, 65535>>
    /\ REG_FPSR = <<2559, 65535>>

\* the table of predicate codes and their expressions over N, Z, NaN
PredCodes == {0, 1, 14, 15, 18, 19, 20, 21, 26, 27, 28, 29}
PredTable(n, z, nan, code) ==
    CASE code = 0  -> FALSE
      [] code = 1  -> z
      [] code = 14 -> ~z
      [] code = 15 -> TRUE
      [] code = 18 -> ~(nan \/ z \/ n)
      [] code = 19 -> z \/ ~(nan \/ n)
      [] code = 20 -> n /\ ~(nan \/ z)
      [] code = 21 -> z \/ (n /\ ~nan)
      [] code = 26 -> nan \/ ~(n \/ z)
      [] code = 27 -> nan \/ z \/ ~n
      [] code = 28 -> nan \/ (n /\ ~z)
      [] code = 29 -> nan \/ z \/ n
      [] OTHER     -> FALSE
PredOn(f, code) == PredTable(FlagSet(f, 8), FlagSet(f, 4), FlagSet(f, 1), code)

\* C2: for each of the 12 predicate codes and every setting of N, Z, NaN (and I),
\* evaluatePredicate returns the table's expression over N, Z, NaN only; codes
\* 0x1A-0x1D are true whenever NaN is set; every other 6-bit code is fatal.
C2_EvaluatePredicate ==
    last.op = "test" =>
        IF given.cond \in PredCodes
        THEN /\ ~halted
             /\ (last.ret # 0) = PredOn(last.fpsr, given.cond)
             /\ (given.cond \in 26..29 /\ FlagSet(last.fpsr, 1) => last.ret # 0)
        ELSE halted

\* "not less-or-equal" (0x1A) with N, Z and NaN all set: true only because of NaN
C2_Witness ==
    /\ last.op = "test"
    /\ given.cond = 26
    /\ last.fpsr = <<3328, 0>>
    /\ last.ret = 1
    /\ ~halted

\* the fields of the instruction recorded in last
Main(l)   == (l.ir \div 64) % 4
HasW2(l)  == l.op = "op0" /\ Main(l) = 0 /\ Len(l.is) > 0
Sub(l)    == (l.is[1] \div 8192) % 8
Opmode(l) == l.is[1] % 128
DstFld(l) == (l.is[1] \div 128) % 8
SrcFld(l) == (l.is[1] \div 1024) % 8
IsAlu(l)  == HasW2(l) /\ Sub(l) \in {0, 2}

\* C3: an ALU instruction that completes leaves FPSR with its four condition bits
\* derived from the result - the new destination value for square root, absolute
\* value, negate, add, multiply and subtract; destination minus source for
\* compare; the source for test - and every other FPSR bit as before; move (0x00)
\* and divide (0x20) leave FPSR exactly as it was.
C3_AluFlags ==
    IsAlu(last) /\ ~halted =>
        LET op == Opmode(last)
            d  == REG_FP[DstFld(last)]
        IN  /\ op \in {4, 24, 26, 34, 35, 40} => REG_FPSR = Derived(last.fpsr, d)
            /\ op = 56 => \E r \in FSub(d, last.src) : REG_FPSR = Derived(last.fpsr, r)
            /\ op = 58 => REG_FPSR = Derived(last.fpsr, last.src)
            /\ op \in {56, 58} /\ Sub(last) = 0 => last.src = REG_FP[SrcFld(last)]
            /\ op \in {0, 32} => REG_FPSR = last.fpsr

\* FTST on FP7 = +0.0 with destination field 0, FPSR all ones before: only Z of
\* the four flags remains, and no floating-point register has changed
C3_Witness ==
    /\ last.op = "op0" /\ last.ir = IR0(0, 0) /\ last.is = <<W2Alu(0, 7, 0, 58)>>
    /\ last.fpsr = <<4095, 65535>>
    /\ REG_FPSR = <<1279, 65535>>
    /\ REG_FP = InitFP
    /\ ~halted

\* a control-register move from the operand into FPSR
IsMoveToFPSR(l) ==
    HasW2(l) /\ Sub(l) = 4 /\ SrcFld(l) = 2

\* every step: the engine, when called, leaves the four bits as the flags of one value
EngineWritesAll == last'.cc => CcField(REG_FPSR') = FlagsOf(last'.res)

\* C4 as stated: in every step of any instruction sequence the four condition
\* bits change only if the condition-code engine was called in that step, and
\* the engine replaces all four from one result value.
C4_OnlyEngineWrites ==
    [][/\ EngineWritesAll
       /\ (CcField(REG_FPSR') # CcField(REG_FPSR) => last'.cc)]_vars

\* C4, amended: the four condition bits change only if the engine was called or
\* the instruction is a control-register move into FPSR; such a move that
\* completes replaces the whole of FPSR, condition bits included, by the operand
\* it loaded; the engine replaces all four bits from one result value.
C4_EngineOrMoveToFPSR ==
    [][/\ EngineWritesAll
       /\ (CcField(REG_FPSR') # CcField(REG_FPSR) => last'.cc \/ IsMoveToFPSR(last'))
       /\ (IsMoveToFPSR(last') /\ ~halted' => REG_FPSR' = last'.ret /\ ~last'.cc)]_vars

\* FMOVE D1,FPSR with D1 = 0xFFFFFFFF over an FPSR of 0: all four bits now set
C4_Witness ==
    /\ last.op = "op0" /\ last.ir = IR0(0, EA_Dn(1)) /\ last.is = <<W2Fpcr(0, 2)>>
    /\ last.fpsr = ZERO32
    /\ REG_FPSR = <<65535, 65535>>
    /\ ~last.cc /\ ~halted

\* A completed access through (An)+ or -(An) moves the register by the width in
\* bytes (ext for the extended-precision path), leaves the other address registers
\* alone, and its bus transactions start at the register's value before the
\* increment, or after the decrement, and run upward from there in long words.
AutoAdjust(ext) ==
    LET mode == EaMode(given.ea)
        reg  == EaReg(given.ea)
        w    == IF given.n = 96 THEN ext ELSE given.n \div 8
    IN  mode \in {3, 4} /\ ~halted' =>
            /\ REG_A'[reg] = Add32(REG_A[reg], IF mode = 3 THEN w ELSE -w)
            /\ \A r \in 0..7 : r # reg => REG_A'[r] = REG_A[r]
            /\ bus' # <<>>
            /\ bus'[1].a = (IF mode = 3 THEN REG_A[reg] ELSE REG_A'[reg])
            /\ \A k \in 1..Len(bus') : bus'[k].a = Add32(bus'[1].a, 4 * (k - 1))

\* C5 as stated: every load or store through (An)+ or -(An) changes the address
\* register by the access width in bytes - 1, 2, 4, or 8 for the 64-bit and the
\* extended-precision paths - and accesses memory at the register's value from
\* before the increment, or from after the decrement.
C5_AdjustByWidth == [][AutoAdjust(8)]_vars

\* C5, amended: as stated, except that the extended-precision path moves the
\* register by 12; the statement is about the accesses the resolver completes.
C5_AdjustExtendedBy12 == [][AutoAdjust(12)]_vars

\* an extended-precision load through (A0)+ from 0x1000: the double 2.25 is
\* returned and A0 reads 0x100C afterwards
C5_Witness ==
    /\ last.op = "load" /\ given.n = 96 /\ given.ea = EA_PI(0)
    /\ icount = 1 /\ ~halted
    /\ last.ret = <<16386, 0, 0, 0>>
    /\ REG_A[0] = <<0, 4108>>

\* C6: for each data register and each address register and each width 8, 16, 32,
\* a store through the register-direct specifier completes, a load through it
\* completes, and the load after the store returns the stored value.
C6_RegisterRoundTrip ==
    [][given.ea < 16 /\ given.n \in {8, 16, 32} =>
          /\ ~halted'
          /\ (last.op = "store" /\ last'.op = "load" => last'.ret = given.val)]_vars

\* the part of C6 the resolver does provide: the round trip on the data registers
C6_DataRegisterRoundTrip ==
    [][given.ea < 8 /\ given.n \in {8, 16, 32} =>
          /\ ~halted'
          /\ (last.op = "store" /\ last'.op = "load" => last'.ret = given.val)]_vars

\* the two 32-bit halves written to the bus at transactions k and k + 1
BusPair(b, k) == <<b[k].d[1], b[k].d[2], b[k + 1].d[1], b[k + 1].d[2]>>

\* FMOVEM FPa/FPb,-(An) with mask 0b00000011: the register stored first and the
\* register stored second, at descending addresses, for 4 cycles in all
StoreOrder(first, second) ==
    LET reg == last'.ir % 8
    IN  /\ last'.op = "op0" /\ Main(last') = 0
        /\ last'.is = <<W2Movem(1, 0, 3)>>
        /\ EaMode(last'.ir % 64) = 4
        /\ ~halted'
        => /\ Len(bus') = 6
           /\ bus'[1].a = Add32(REG_A[reg], -12) /\ BusPair(bus', 1) = REG_FP[first]
           /\ bus'[4].a = Add32(REG_A[reg], -24) /\ BusPair(bus', 4) = REG_FP[second]
           /\ \A k \in 1..6 : bus'[k].rw = "w"
           /\ cycles' = cycles + 4

\* C7 as stated: the store with mask 0b00000011 and predecrement addressing stores
\* register 1 first and then register 0, at descending addresses, 4 cycles in all.
C7_Register1First == [][StoreOrder(1, 0)]_vars

\* C7, amended: it stores register 0 first and then register 1, at descending
\* addresses (register 0 at An-12, register 1 at An-24), 2 cycles per register,
\* 4 cycles in all.
C7_Register0First == [][StoreOrder(0, 1)]_vars

\* the 64-bit pattern in the 8 bytes of memory mm at address a
Mem64(mm, a) ==
    [k \in 1..4 |-> MemByte(mm, Add32(a, 2 * k - 2)) * 256
                    + MemByte(mm, Add32(a, 2 * k - 1))]

\* FMOVEM FP0/FP1,-(A7) from A7 = 0x3000: FP0 = 2.0 lies at 0x2FF4, FP1 = 3.0 at
\* 0x2FE8, A7 = 0x2FE8, 4 cycles charged
C7_Witness ==
    /\ last.op = "op0" /\ last.ir = IR0(0, EA_PD(7)) /\ last.is = <<W2Movem(1, 0, 3)>>
    /\ icount = 1 /\ ~halted /\ cycles = 4
    /\ REG_A[7] = <<0, 12264>>
    /\ Mem64(mem, <<0, 12276>>) = <<16384, 0, 0, 0>>
    /\ Mem64(mem, <<0, 12264>>) = <<16392, 0, 0, 0>>
    /\ bus[1].a = <<0, 12276>> /\ bus[4].a = <<0, 12264>>

\* the number of set bits of mask below bit i
Rank(mask, i) == Cardinality({j \in 0..(i - 1) : Bit(mask, j) = 1})

\* C8: a completed FMOVEM load through (An)+ takes the mask bits in ascending
\* order and loads the k-th operand (at An + 12k) into register 7-i for the k-th
\* set bit i; registers whose mirrored bit is clear are unchanged.  A completed
\* FMOVEM store through -(An) takes set bit i to register i: the k-th set bit i
\* stores register i at An - 12(k+1).
C8_MovemOrder ==
    [][LET ea   == last'.ir % 64
           reg  == ea % 8
           mask == last'.is[1] % 256
           dir  == (last'.is[1] \div 8192) % 2
       IN  HasW2(last') /\ Sub(last') \in {6, 7} /\ ~halted' /\ mask # 0 =>
               IF dir = 0
               THEN /\ EaMode(ea) = 3
                    /\ \A j \in 0..7 :
                          REG_FP'[j] = IF Bit(mask, 7 - j) = 1
                                       THEN Mem64(mem, Add32(REG_A[reg],
                                                             12 * Rank(mask, 7 - j)))
                                       ELSE REG_FP[j]
                    /\ REG_A'[reg] = Add32(REG_A[reg], 12 * Rank(mask, 8))
               ELSE /\ EaMode(ea) = 4
                    /\ REG_FP' = REG_FP
                    /\ \A i \in 0..7 :
                          Bit(mask, i) = 1 =>
                              Mem64(mem', Add32(REG_A[reg], -12 * (Rank(mask, i) + 1)))
                                  = REG_FP[i]
                    /\ REG_A'[reg] = Add32(REG_A[reg], -12 * Rank(mask, 8))]_vars

\* FMOVEM (A0)+ with mask 0b10000001 from A0 = 0x1000: bit 0 puts the first
\* operand (2.25) in FP7, bit 7 puts the second (0.0, at 0x100C) in FP0
C8_Witness ==
    /\ last.op = "op0" /\ last.ir = IR0(0, EA_PI(0)) /\ last.is = <<W2Movem(0, 2, 129)>>
    /\ icount = 1 /\ ~halted
    /\ REG_FP[7] = <<16386, 0, 0, 0>>
    /\ REG_FP[0] = ZERO64
    /\ \A j \in 1..6 : REG_FP[j] = InitFP[j]
    /\ REG_A[0] = <<0, 4120>>

\* a 16-bit displacement as a signed 32-bit one
SignExt16(w) == <<IF w >= 32768 THEN 65535 ELSE 0, w>>

ModesOf(modes) == {ea \in 0..55 : EaMode(ea) \in modes}
CanRead(n) ==
    CASE n \in {8, 16} -> ModesOf({0, 2, 5, 6}) \cup {56, 57, 60}
      [] n = 32        -> ModesOf({0, 2, 3, 5, 6}) \cup {56, 57, 58, 60}
      [] n = 64        -> ModesOf({2, 3, 5}) \cup {58, 60}
      [] n = 96        -> ModesOf({3})
      [] OTHER         -> {}
CanWrite(n) ==
    CASE n \in {8, 16} -> ModesOf({0, 2, 3, 4, 5, 6}) \cup {57, 58}
      [] n = 32        -> ModesOf({0, 1, 2, 3, 4, 5, 6}) \cup {57, 58}
      [] n = 64        -> ModesOf({2, 4, 5})
      [] n = 96        -> ModesOf({4})
      [] OTHER         -> {}

\* operand width of a format code; 0 for extended (2) and packed decimal (3, 7)
FormatBits(fmt) ==
    CASE fmt \in {0, 1} -> 32
      [] fmt = 4        -> 16
      [] fmt = 5        -> 64
      [] fmt = 6        -> 8
      [] OTHER          -> 0

\* the instruction recorded in l has an encoding outside the defined set
OutsideDefinedSet(l) ==
    LET ea == l.ir % 64
    IN  IF l.op = "op1"
        THEN \/ Main(l) \notin {0, 1}
             \/ Main(l) = 0 /\ ea \notin CanWrite(32)
             \/ Main(l) = 1 /\ ea \notin CanRead(32)
        ELSE \/ Main(l) = 1
             \/ Main(l) \in {2, 3} /\ ea \notin PredCodes
             \/ /\ HasW2(l)
                /\ LET w2   == l.is[1]
                       fmt  == SrcFld(l)
                       dir  == (w2 \div 8192) % 2
                       mode == (w2 \div 2048) % 4
                   IN  CASE Sub(l) = 1 -> TRUE
                         [] Sub(l) = 0 -> Opmode(l) \notin AluOps
                         [] Sub(l) = 2 -> \/ Opmode(l) \notin AluOps
                                          \/ fmt \in {2, 3, 7}
                                          \/ ea \notin CanRead(FormatBits(fmt))
                         [] Sub(l) = 3 -> \/ fmt \in {2, 3, 7}
                                          \/ ea \notin CanWrite(FormatBits(fmt))
                         [] Sub(l) \in {4, 5} ->
                                \/ fmt \notin {1, 2, 4}
                                \/ dir = 1 /\ ea \notin CanWrite(32)
                                \/ dir = 0 /\ ea \notin CanRead(32)
                         [] OTHER ->
                                \/ dir = 1 /\ mode # 0
                                \/ dir = 0 /\ mode # 2
                                \/ /\ w2 % 256 # 0
                                   /\ \/ dir = 1 /\ ea \notin CanWrite(96)
                                      \/ dir = 0 /\ ea \notin CanRead(96)

\* C10: an instruction whose encoding is outside the defined set ends in the
\* fatal-error outcome: an extension-word family other than the four, an
\* unrecognized ALU operation code, an extended or packed-decimal format, a
\* control-register selector other than 1, 2, 4, FMOVEM with a mode field other
\* than predecrement (store) / postincrement (load), an operand specifier its
\* access does not support - every store to #imm among them - and likewise an
\* unknown opcode class or predicate code.
C10_IllegalIsFatal ==
    last.op \in {"op0", "op1"} /\ OutsideDefinedSet(last) => halted

\* every store to the immediate specifier is fatal: no instruction that stores
\* through #imm has completed
C10_ImmediateStore ==
    /\ last.ir % 64 = 60
    /\ \/ last.op = "op1" /\ Main(last) = 0
       \/ HasW2(last) /\ Sub(last) \in {3, 5}
       \/ HasW2(last) /\ Sub(last) = 7 /\ last.is[1] % 256 # 0
    => halted

\* FMOVE.L FP0,#imm has ended in the fatal-error outcome
C10_Witness ==
    /\ last.op = "op0" /\ last.ir = IR0(0, 60) /\ last.is[1] = W2Mem(0, 0)
    /\ icount = 1
    /\ halted

\* the cycles an instruction is to charge, by family and operation code: the
\* ALU operations, move-to-memory, control-register move, conditional branch;
\* and, beyond those, 2 per register an FMOVEM transfers and none for
\* FSAVE / FRESTORE
CycleCost(l) ==
    IF l.op = "op1" THEN 0
    ELSE IF Main(l) \in {2, 3} THEN 7
    ELSE CASE Sub(l) \in {0, 2} ->
                (CASE Opmode(l) = 0  -> 4
                   [] Opmode(l) = 4  -> 109
                   [] Opmode(l) = 24 -> 3
                   [] Opmode(l) = 26 -> 3
                   [] Opmode(l) = 32 -> 43
                   [] Opmode(l) = 34 -> 9
                   [] Opmode(l) = 35 -> 11
                   [] Opmode(l) = 40 -> 9
                   [] Opmode(l) = 56 -> 7
                   [] Opmode(l) = 58 -> 7
                   [] OTHER          -> 0)
           [] Sub(l) = 3 -> 12
           [] Sub(l) \in {4, 5} -> 10
           [] OTHER -> 2 * Rank(l.is[1] % 256, 8)

\* C11: every instruction that completes charges the cycles of its family and
\* operation code - ALU move 4, sqrt 109, abs 3, neg 3, div 43, add 9, mul 11,
\* sub 9, cmp 7, tst 7; move-to-memory 12; control-register move 10; conditional
\* branch 7 - whatever the operand values, whether the source is a register or
\* memory, and whether or not the branch is taken.
C11_FixedCycles ==
    [][last'.op \in {"op0", "op1"} /\ ~halted' => cycles' = cycles + CycleCost(last')]_vars

\* FADD FP1,FP0 with FP0 = 2.0 and FP1 = 3.0: FP0 = 5.0 and exactly 9 cycles charged
C11_Witness ==
    /\ last.op = "op0" /\ last.ir = IR0(0, 0) /\ last.is = <<W2Alu(0, 1, 0, 34)>>
    /\ icount = 1 /\ ~halted
    /\ last.src = <<16392, 0, 0, 0>>
    /\ REG_FP[0] = <<16404, 0, 0, 0>>
    /\ cycles = 9

\* C12: for every register list M and address register An, once the FMOVEM
\* store of M through -(An) has completed, every selected register lies in a
\* 12-byte slot of its own below the starting An (the k-th selected register at
\* An - 12(k+1)) whose last 4 bytes were written as zero; and once the FMOVEM
\* load through (An)+ with the mirrored list has completed, An is back at its
\* starting value and every register selected by M holds exactly the 64-bit
\* pattern it held at the store, whatever instructions overwrote the
\* floating-point registers in between.
C12_RoundTrip ==
    LET n     == given.reg
        M     == given.mask
        count == Rank(M, 8)
    IN  /\ last.op = "store" =>
            /\ ~halted
            /\ REG_A[n] = Add32(InitA[n], -12 * count)
            /\ Len(bus) = 3 * count
            /\ \A i \in 0..7 : Bit(M, i) = 1 =>
                   LET k    == Rank(M, i)
                       slot == Add32(InitA[n], -12 * (k + 1))
                   IN  /\ Mem64(mem, slot) = InitFP[i]
                       /\ BusPair(bus, 3 * k + 1) = InitFP[i]
                       /\ bus[3 * k + 1].a = slot
                       /\ bus[3 * k + 3].rw = "w"
                       /\ bus[3 * k + 3].a = Add32(slot, 8)
                       /\ bus[3 * k + 3].d = ZERO32
                       /\ \A b \in 8..11 : MemByte(mem, Add32(slot, b)) = 0
        /\ last.op = "reload" =>
            /\ ~halted
            /\ REG_A[n] = InitA[n]
            /\ \A i \in 0..7 : Bit(M, i) = 1 => REG_FP[i] = InitFP[i]

\* FMOVEM FP0/FP2/FP5,-(A7) from A7 = 0x3000, then FMOVEM (A0)+,FP0-FP7, which
\* overwrites all eight registers (FP7 = 2.25, FP1 = 0), then
\* FMOVEM (A7)+,FP0/FP2/FP5: 2.0, -1.5 and -0.0 are back, A7 = 0x3000
C12_Witness ==
    /\ given.mask = 37 /\ given.reg = 7
    /\ last.op = "reload" /\ last.is = <<W2Movem(0, 2, 164)>>
    /\ icount = 3 /\ ~halted
    /\ REG_A[7] = <<0, 12288>> /\ REG_A[0] = <<0, 4192>>
    /\ REG_FP[0] = <<16384, 0, 0, 0>>
    /\ REG_FP[2] = <<49144, 0, 0, 0>>
    /\ REG_FP[5] = <<32768, 0, 0, 0>>
    /\ REG_FP[7] = <<16386, 0, 0, 0>>
    /\ REG_FP[1] = <<0, 0, 0, 0>>
    /\ Mem64(mem, <<0, 12252>>) = <<32768, 0, 0, 0>>

=============================================================================
